---------------------------- MODULE Spec2Model ----------------------------
(***************************************************************************)
(* hisecon: the secure contact-form mailer, in its three handler versions. *)
(*                                                                         *)
(*   "args"   src/hisecon.py           flask handler, query-string params  *)
(*   "json"   src/hisecon/*.py         flask handler, JSON-body params     *)
(*   "class"  src/src/hisecon.py       class-based HiseconRequestHandler   *)
(*                                                                         *)
(* One request is handled at a time, in the steps of the request           *)
(* lifecycle: Idle -> Resolving -> Verifying -> Assembling -> Sending ->   *)
(* Done.  The two network calls (reCAPTCHA verification, SMTP delivery)    *)
(* are the environment's: their replies are chosen nondeterministically.   *)
(*                                                                         *)
(* Text (bodies, subjects) is a sequence of one-character strings.  An     *)
(* address is an atomic string.  The comma-separated recipients parameter  *)
(* is a sequence of tokens: addresses, "," and " ".  An optional value     *)
(* (a dict key that may be missing, a None) is Absent or Some(value).      *)
(***************************************************************************)
EXTENDS Integers, Sequences, FiniteSets, TLC

VARIABLES
    ver,          \* the handler version deployed
    registry,     \* the site registry: site identifier -> site settings
    sitesFile,    \* state of the registry file (read per request by "class")
    req,          \* the request being handled
    pc,           \* position of the handler in the request lifecycle
    verifyCalls,  \* calls of the CAPTCHA verifier on this request
    verifyReply,  \* what the verification service answered
    sendCalls,    \* calls of the mail transport's send on this request
    batch,        \* the emails handed to the mail transport
    sendResult,   \* what the mail transport reported
    status,       \* HTTP status of the response (0: none yet)
    msg,          \* message of the response
    outcome,      \* terminal state: Sent, Rejected, Failed, Unhandled
    emails,       \* the emails assembled for this request
    loaded,       \* "class": the dictionary the handler last parsed from
                  \* the registry file, as the handler left it
    appended      \* "class": a request appended to a site's recipients list

vars == <<ver, registry, sitesFile, req, pc, verifyCalls, verifyReply,
          sendCalls, batch, sendResult, status, msg, outcome, emails, loaded,
          appended>>

---------------------------------------------------------------------------
(* Optional values *)

Absent == <<>>
Some(x) == <<x>>
Has(p) == Len(p) > 0
Val(p) == p[1]

\* Python truthiness of an optional text / token sequence: None and '' are falsy
Truthy(p) == Has(p) /\ Len(Val(p)) > 0

\* Python truthiness of an optional atomic string
TruthyStr(p) == Has(p) /\ Val(p) # ""

---------------------------------------------------------------------------
(* Bounds *)

\* longest recipients list a JSON request carries
MaxRecipients == 2

---------------------------------------------------------------------------
(* Text helpers *)

BR == <<"<", "b", "r", ">">>
NL == "\n"

\* a byte sequence that is not valid UTF-8
BadByte == "\\xff"
\* U+FFFD, what a lenient decoder puts in its place
Replacement == "\\ufffd"

RECURSIVE ReplaceBrFrom(_, _)
\* s from position i on, with every '<br>' met from left to right replaced
ReplaceBrFrom(s, i) ==
    IF i > Len(s) THEN <<>>
    ELSE IF i + 3 <= Len(s) /\ SubSeq(s, i, i + 3) = BR
         THEN <<NL>> \o ReplaceBrFrom(s, i + 4)
         ELSE <<s[i]>> \o ReplaceBrFrom(s, i + 1)

\* str.replace('<br>', '\n'): leftmost, non-overlapping
replace_br(s) == ReplaceBrFrom(s, 1)

\* the value of a hexadecimal digit, upper or lower case
HexTable ==
       ("0" :> 0) @@ ("1" :> 1) @@ ("2" :> 2) @@ ("3" :> 3) @@ ("4" :> 4) @@ ("5" :> 5)
    @@ ("6" :> 6) @@ ("7" :> 7) @@ ("8" :> 8) @@ ("9" :> 9) @@ ("a" :> 10) @@ ("b" :> 11)
    @@ ("c" :> 12) @@ ("d" :> 13) @@ ("e" :> 14) @@ ("f" :> 15) @@ ("A" :> 10) @@ ("B" :> 11)
    @@ ("C" :> 12) @@ ("D" :> 13) @@ ("E" :> 14) @@ ("F" :> 15)

HexChars ==
    <<"0", "1", "2", "3", "4", "5", "6", "7", "8", "9", "a", "b", "c", "d", "e", "f">>

\* the printable ASCII characters, U+0020 to U+007E; the grave accent is
\* written \u0060
Printable ==
    <<
      " ", "!", "\"", "#", "$", "%", "&", "'", "(", ")", "*", "+",
      ",", "-", ".", "/", "0", "1", "2", "3", "4", "5", "6", "7",
      "8", "9", ":", ";", "<", "=", ">", "?", "@", "A", "B", "C",
      "D", "E", "F", "G", "H", "I", "J", "K", "L", "M", "N", "O",
      "P", "Q", "R", "S", "T", "U", "V", "W", "X", "Y", "Z", "[",
      "\\", "]", "^", "_", "\\u0060", "a", "b", "c", "d", "e", "f", "g",
      "h", "i", "j", "k", "l", "m", "n", "o", "p", "q", "r", "s",
      "t", "u", "v", "w", "x", "y", "z", "{", "|", "}", "~" >>

\* four hexadecimal digits of n
Hex4(n) ==
       HexChars[((n \div 4096) % 16) + 1] \o HexChars[((n \div 256) % 16) + 1]
    \o HexChars[((n \div 16) % 16) + 1] \o HexChars[(n % 16) + 1]

\* the character of a code point: itself when printable ASCII or newline,
\* otherwise written \uXXXX (\UXXXXXXXX beyond the basic plane)
Chr(cp) ==
    IF cp >= 32 /\ cp <= 126 THEN Printable[cp - 31]
    ELSE IF cp = 10 THEN NL
    ELSE IF cp < 65536 THEN "\\u" \o Hex4(cp)
    ELSE "\\U" \o Hex4(cp \div 65536) \o Hex4(cp % 65536)

\* the code of an ASCII character, -1 for any other character
Ord(c) ==
    IF \E cp \in 0..127 : Chr(cp) = c
    THEN CHOOSE cp \in 0..127 : Chr(cp) = c
    ELSE -1

RECURSIVE UnquoteToBytesFrom(_, _)
\* urllib.parse.unquote_to_bytes: %XX with two hex digits becomes the byte;
\* a '%' without them is left alone.  A character that is not ASCII (b = -1)
\* is kept as it is and ends the run of bytes.
UnquoteToBytesFrom(s, i) ==
    IF i > Len(s) THEN <<>>
    ELSE IF s[i] = "%" /\ i + 2 <= Len(s)
            /\ s[i + 1] \in DOMAIN HexTable /\ s[i + 2] \in DOMAIN HexTable
         THEN <<[b |-> 16 * HexTable[s[i + 1]] + HexTable[s[i + 2]],
                 c |-> ""]>>
              \o UnquoteToBytesFrom(s, i + 3)
         ELSE <<[b |-> Ord(s[i]), c |-> s[i]]>>
              \o UnquoteToBytesFrom(s, i + 1)

\* position i holds a byte between lo and hi
Cont(bs, i, lo, hi) == i <= Len(bs) /\ bs[i].b >= lo /\ bs[i].b <= hi

RECURSIVE Utf8DecodeFrom(_, _)
\* bytes.decode('utf-8', 'replace'): a byte that cannot start a sequence, or
\* the longest valid start of a sequence that is cut short, becomes U+FFFD
Utf8DecodeFrom(bs, i) ==
    IF i > Len(bs) THEN <<>>
    ELSE LET b0 == bs[i].b
             lo2 == IF b0 = 224 THEN 160 ELSE IF b0 = 240 THEN 144 ELSE 128
             hi2 == IF b0 = 237 THEN 159 ELSE IF b0 = 244 THEN 143 ELSE 191
         IN  IF b0 < 0 THEN <<bs[i].c>> \o Utf8DecodeFrom(bs, i + 1)
             ELSE IF b0 < 128 THEN <<Chr(b0)>> \o Utf8DecodeFrom(bs, i + 1)
             ELSE IF b0 >= 194 /\ b0 <= 223
             THEN IF Cont(bs, i + 1, 128, 191)
                  THEN <<Chr((b0 - 192) * 64 + (bs[i + 1].b - 128))>>
                       \o Utf8DecodeFrom(bs, i + 2)
                  ELSE <<Replacement>> \o Utf8DecodeFrom(bs, i + 1)
             ELSE IF b0 >= 224 /\ b0 <= 239
             THEN IF ~Cont(bs, i + 1, lo2, hi2)
                  THEN <<Replacement>> \o Utf8DecodeFrom(bs, i + 1)
                  ELSE IF ~Cont(bs, i + 2, 128, 191)
                  THEN <<Replacement>> \o Utf8DecodeFrom(bs, i + 2)
                  ELSE <<Chr((b0 - 224) * 4096 + (bs[i + 1].b - 128) * 64
                             + (bs[i + 2].b - 128))>>
                       \o Utf8DecodeFrom(bs, i + 3)
             ELSE IF b0 >= 240 /\ b0 <= 244
             THEN IF ~Cont(bs, i + 1, lo2, hi2)
                  THEN <<Replacement>> \o Utf8DecodeFrom(bs, i + 1)
                  ELSE IF ~Cont(bs, i + 2, 128, 191)
                  THEN <<Replacement>> \o Utf8DecodeFrom(bs, i + 2)
                  ELSE IF ~Cont(bs, i + 3, 128, 191)
                  THEN <<Replacement>> \o Utf8DecodeFrom(bs, i + 3)
                  ELSE <<Chr((b0 - 240) * 262144
                             + (bs[i + 1].b - 128) * 4096
                             + (bs[i + 2].b - 128) * 64
                             + (bs[i + 3].b - 128))>>
                       \o Utf8DecodeFrom(bs, i + 4)
             ELSE <<Replacement>> \o Utf8DecodeFrom(bs, i + 1)

\* urllib.parse.unquote: every %XX is decoded to its byte and each run of
\* bytes is decoded as UTF-8, errors replaced
unquote(s) == Utf8DecodeFrom(UnquoteToBytesFrom(s, 1), 1)

RECURSIVE SplitFrom(_, _, _)
\* the entries of s from position i on, cur being the entry under way
SplitFrom(s, i, cur) ==
    IF i > Len(s) THEN <<cur>>
    ELSE IF s[i] = "," THEN <<cur>> \o SplitFrom(s, i + 1, <<>>)
    ELSE SplitFrom(s, i + 1, Append(cur, s[i]))

\* str.split(','): '' gives ['']
split(s) == SplitFrom(s, 1, <<>>)

RECURSIVE StripBounds(_, _, _)
\* the first and last position of e that str.strip keeps
StripBounds(e, i, j) ==
    IF i <= j /\ e[i] = " " THEN StripBounds(e, i + 1, j)
    ELSE IF i <= j /\ e[j] = " " THEN StripBounds(e, i, j - 1)
    ELSE <<i, j>>

\* str.strip
strip(e) ==
    LET b == StripBounds(e, 1, Len(e)) IN SubSeq(e, b[1], b[2])

RECURSIVE JoinFrom(_, _)
JoinFrom(e, i) == IF i > Len(e) THEN "" ELSE e[i] \o JoinFrom(e, i + 1)

\* the string a token sequence spells
join(e) == JoinFrom(e, 1)

RECURSIVE StripFilterFrom(_, _)
\* filter(None, map(str.strip, parts)), from position i on
StripFilterFrom(parts, i) ==
    IF i > Len(parts) THEN <<>>
    ELSE IF join(strip(parts[i])) = "" THEN StripFilterFrom(parts, i + 1)
    ELSE <<join(strip(parts[i]))>> \o StripFilterFrom(parts, i + 1)

\* filter(None, map(str.strip, recipients.split(',')))
split_recipients(s) == StripFilterFrom(split(s), 1)

---------------------------------------------------------------------------
(* The site registry and the global configuration *)

\* the registry as loaded: a site with everything, a site with only a
\* secret, and a site that lacks its secret
Sites ==
       ("acme" :> [secret |-> Some("k-acme"),
                   recipients |-> Some(<<"info@acme">>),
                   from |-> Some("web@acme")])
    @@ ("bare" :> [secret |-> Some("k-bare"),
                   recipients |-> Absent,
                   from |-> Absent])
    @@ ("nosecret" :> [secret |-> Absent,
                       recipients |-> Some(<<"info@acme">>),
                       from |-> Absent])

\* CONFIG['mail']['from'], the default sender
DefaultFrom == "noreply@hisecon"

\* Hisecon.DEBUG, handed to the request handler
DEBUG == TRUE

FileStates == {"valid", "missing", "unreadable", "invalid"}

---------------------------------------------------------------------------
(* Requests *)

Versions == {"args", "json", "class"}

OptConfig == {Absent, Some("acme"), Some("bare"), Some("nosecret"), Some("unknown")}
OptResponse == {Absent, Some("tok1")}
OptSubject == {Absent, Some(<<>>), Some(<<"H", "i">>)}

\* recipient lists of a JSON request
RecipientLists ==
    UNION {[1..n -> {"a@x", "b@x"}] : n \in 0..MaxRecipients}

\* query-string parameters and the raw body
RequestsArgs ==
    [config : OptConfig, response : OptResponse, subject : OptSubject,
     recipient : {Absent, Some(""), Some("r@x")},
     recipients : {Absent, Some(<<>>), Some(<<" ", "a@x", " ", ",", ",", "b@x">>)},
     issuer : {Absent, Some(""), Some("i@x")},
     html : {Absent, Some(""), Some("1")},
     format : {Absent, Some("text"), Some("html"), Some("json"), Some("pdf")},
     reply_to : {Absent, Some("re@x")},
     contentType : {Absent}, text : {Absent},
     body : {<<>>, <<"h", "i">>, <<"a", "<", "b", "r", ">", "b">>}]

\* the keys of the JSON body
RequestsJson ==
    [config : OptConfig, response : OptResponse, subject : OptSubject,
     recipient : {Absent},
     recipients : {Absent} \cup {Some(l) : l \in RecipientLists},
     issuer : {Absent}, html : {Absent}, format : {Absent},
     reply_to : {Absent, Some("re@x")},
     contentType : {Absent, Some("text/plain"), Some("text/html"),
                    Some("application/xhtml+xml"), Some("application/json")},
     text : {Absent, Some(<<>>), Some(<<"h", "i">>)},
     body : {<<>>}]

\* self.params and self.data
RequestsClass ==
    [config : OptConfig, response : OptResponse, subject : OptSubject,
     recipient : {Absent, Some(""), Some("r@x")},
     recipients : {Absent},
     issuer : {Absent, Some("i@x")},
     html : {Absent, Some(""), Some("1")},
     format : {Absent}, reply_to : {Absent},
     contentType : {Absent}, text : {Absent},
     body : {<<>>, <<"h", "i">>, <<"<", "b", "r", ">">>,
             <<"%", "3", "C", "b", "r", "%", "3", "E">>, <<BadByte>>}]

Requests(v) ==
    CASE v = "args" -> RequestsArgs
      [] v = "json" -> RequestsJson
      [] v = "class" -> RequestsClass

NoRequest ==
    [config |-> Absent, response |-> Absent, subject |-> Absent,
     recipient |-> Absent, recipients |-> Absent, issuer |-> Absent,
     html |-> Absent, format |-> Absent, reply_to |-> Absent,
     contentType |-> Absent, text |-> Absent, body |-> <<>>]

---------------------------------------------------------------------------
(* What a step of the handler comes to *)

\* the handler goes on to its next step
Continue == [done |-> FALSE, status |-> 0, msg |-> "", raised |-> FALSE]
\* the handler answers with an error (or success) response
Respond(st, m) == [done |-> TRUE, status |-> st, msg |-> m, raised |-> FALSE]
\* an exception no clause of the handler catches
Raise(exc) == [done |-> TRUE, status |-> 0, msg |-> exc, raised |-> TRUE]

\* the terminal state a response's status stands for
OutcomeOf(res) ==
    IF res.raised THEN "Unhandled"
    ELSE CASE res.status = 200 -> "Sent"
           [] res.status = 400 -> "Rejected"
           [] res.status = 500 -> "Failed"

EMail(subject, sender, recipient, plain, html, reply_to) ==
    [subject |-> subject, sender |-> sender, recipient |-> recipient,
     plain |-> plain, html |-> html, reply_to |-> reply_to]

---------------------------------------------------------------------------
(* Version "args": src/hisecon.py *)

\* load_site with an unknown site reported as a server error
load_site_unknown_500(reg, r) ==
    IF ~Has(r.config) THEN Respond(400, "No configuration provided.")
    ELSE IF Val(r.config) \notin DOMAIN reg
         THEN Respond(500, "No such configuration")
         ELSE Continue

\* _load_site: the SITE proxy, resolved on each use
load_site(reg, r) ==
    IF ~Has(r.config) THEN Respond(400, "No configuration provided.")
    ELSE IF Val(r.config) \notin DOMAIN reg
         THEN Respond(400, "No such configuration")
         ELSE Continue

\* _load_secret
load_secret(reg, r) ==
    LET site == load_site(reg, r)
    IN  IF site.done THEN site
        ELSE IF ~Has(reg[Val(r.config)].secret)
             THEN Respond(500, "No secret specified.")
             ELSE Continue

get_response(r) ==
    IF ~Has(r.response) THEN Respond(400, "No reCAPTCHA response provided.")
    ELSE Continue

\* the arguments of verify(), evaluated left to right before the call
send_emails_resolve(reg, r) ==
    LET secret == load_secret(reg, r)
    IN  IF secret.done THEN secret ELSE get_response(r)

\* recaptcha.verify as send_emails uses it: it returns when the service
\* answers success, and raises VerificationError otherwise
verify_raises(reply) == reply # "true"

\* the try/except around verify()
send_emails_verify(reply) ==
    IF verify_raises(reply) THEN Respond(400, "reCAPTCHA check failed.")
    ELSE Continue

get_format(r) ==
    IF Has(r.format) THEN Val(r.format)
    ELSE IF TruthyStr(r.html) \/ (Has(r.html) /\ Val(r.html) = "")
         THEN "html"
         ELSE "text"

\* request.get_data(as_text=True): undecodable bytes are replaced
get_data_as_text(body) ==
    [i \in 1..Len(body) |-> IF body[i] = BadByte THEN Replacement ELSE body[i]]

\* get_body: (plain, html)
get_body(r) ==
    LET format == get_format(r)
        text == get_data_as_text(r.body)
    IN  IF format = "html" THEN [plain |-> Absent, html |-> Some(text)]
        ELSE IF format = "json" THEN [plain |-> Absent, html |-> Some(text)]
        ELSE [plain |-> Some(replace_br(text)), html |-> Absent]

get_recipients(reg, r) ==
    LET site == reg[Val(r.config)]
    IN     (IF Has(site.recipients) THEN Val(site.recipients) ELSE <<>>)
        \o (IF Has(r.recipient) THEN <<Val(r.recipient)>> ELSE <<>>)
        \o (IF Truthy(r.recipients) THEN split_recipients(Val(r.recipients))
            ELSE <<>>)
        \o (IF Has(r.issuer) THEN <<Val(r.issuer)>> ELSE <<>>)

get_subject(r) ==
    IF ~Has(r.subject) THEN Respond(400, "No subject provided") ELSE Continue

get_sender(reg, r) ==
    LET site == reg[Val(r.config)]
    IN  IF Has(site.from) THEN Val(site.from) ELSE DefaultFrom

\* get_emails, run to its end by tuple(): the error it raises, or the emails
get_emails(reg, r) ==
    LET subject == get_subject(r)
        body == get_body(r)
        recipients == get_recipients(reg, r)
    IN  IF subject.done THEN [res |-> subject, emails |-> <<>>]
        ELSE IF ~Truthy(body.plain) /\ ~Truthy(body.html)
             THEN [res |-> Respond(400, "No message body provided."),
                   emails |-> <<>>]
             ELSE [res |-> Continue,
                   emails |->
                       [i \in 1..Len(recipients) |->
                           EMail(Val(r.subject), get_sender(reg, r),
                                 recipients[i], body.plain, body.html,
                                 IF TruthyStr(r.reply_to) THEN r.reply_to
                                 ELSE Absent)]]

\* emails = tuple(get_emails()); if not emails: ...
send_emails_assemble(reg, r) ==
    LET got == get_emails(reg, r)
    IN  IF got.res.done THEN got
        ELSE IF got.emails = <<>>
             THEN [res |-> Respond(400, "No recipients specified."),
                   emails |-> <<>>]
             ELSE got

\* if MAILER.send(emails): ... ; send returns whether it delivered
send_emails_send(result) ==
    IF result = "delivered" THEN Respond(200, "Emails sent.")
    ELSE Respond(500, "Could not send (all) emails.")

---------------------------------------------------------------------------
(* Version "json": src/hisecon/contextlocals.py, functions.py, wsgi.py *)

\* contextlocals.load_site: the SITE proxy, resolved on each use
load_site_json(reg, r) ==
    IF ~Has(r.config) THEN Respond(400, "No configuration provided.")
    ELSE IF Val(r.config) \notin DOMAIN reg
         THEN Respond(400, "No such configuration")
         ELSE Continue

\* functions.get_secret
get_secret(reg, r) ==
    LET site == load_site_json(reg, r)
    IN  IF site.done THEN site
        ELSE IF ~Has(reg[Val(r.config)].secret)
             THEN Respond(500, "No secret specified.")
             ELSE Continue

\* functions.get_response
get_response_json(r) ==
    IF ~Has(r.response) THEN Respond(400, "No reCAPTCHA response provided.")
    ELSE Continue

\* functions.verify: the arguments of _verify(), before the call
verify_resolve(reg, r) ==
    LET secret == get_secret(reg, r)
    IN  IF secret.done THEN secret ELSE get_response_json(r)

\* wsgi.send_emails: the try/except around verify()
send_emails_json_verify(reply) ==
    IF verify_raises(reply) THEN Respond(400, "reCAPTCHA check failed.")
    ELSE Continue

\* functions.get_content_type
get_content_type(r) ==
    IF ~Has(r.contentType) THEN Respond(400, "No content type provided")
    ELSE Continue

\* functions.get_text
get_text(r) ==
    IF ~Has(r.text) THEN Respond(400, "No text provided") ELSE Continue

\* functions.get_subject
get_subject_json(r) ==
    IF ~Has(r.subject) THEN Respond(400, "No subject provided") ELSE Continue

\* functions.get_plain_text: the error raised, or the value returned
get_plain_text(r) ==
    LET ct == get_content_type(r)
    IN  IF ct.done THEN [res |-> ct, value |-> Absent]
        ELSE IF Val(r.contentType) \in {"text/html", "application/xhtml+xml"}
             THEN [res |-> get_text(r), value |-> r.text]
             ELSE [res |-> Continue, value |-> Absent]

\* functions.get_html_text: the error raised, or the value returned
get_html_text(r) ==
    LET ct == get_content_type(r)
    IN  IF ct.done THEN [res |-> ct, value |-> Absent]
        ELSE IF Val(r.contentType) = "text/plain"
             THEN [res |-> get_text(r), value |-> r.text]
             ELSE [res |-> Continue, value |-> Absent]

\* functions.get_recipients
get_recipients_json(reg, r) ==
    LET site == reg[Val(r.config)]
    IN     (IF Has(site.recipients) THEN Val(site.recipients) ELSE <<>>)
        \o (IF Has(r.recipients) THEN Val(r.recipients) ELSE <<>>)

\* functions.get_sender
get_sender_json(reg, r) ==
    LET site == reg[Val(r.config)]
    IN  IF Has(site.from) THEN Val(site.from) ELSE DefaultFrom

\* functions.get_emails, run to its end by tuple(): the arguments of EMail
\* are evaluated for each recipient, so nothing is raised without one
get_emails_json(reg, r) ==
    LET recipients == get_recipients_json(reg, r)
        subject == get_subject_json(r)
        plain == get_plain_text(r)
        html == get_html_text(r)
    IN  IF recipients = <<>> THEN [res |-> Continue, emails |-> <<>>]
        ELSE IF subject.done THEN [res |-> subject, emails |-> <<>>]
        ELSE IF plain.res.done THEN [res |-> plain.res, emails |-> <<>>]
        ELSE IF html.res.done THEN [res |-> html.res, emails |-> <<>>]
        ELSE [res |-> Continue,
              emails |->
                  [i \in 1..Len(recipients) |->
                      EMail(Val(r.subject), get_sender_json(reg, r),
                            recipients[i], plain.value, html.value,
                            r.reply_to)]]

\* wsgi.send_emails: emails = tuple(get_emails()); if not emails: ...
send_emails_json_assemble(reg, r) ==
    LET got == get_emails_json(reg, r)
    IN  IF got.res.done THEN got
        ELSE IF got.emails = <<>>
             THEN [res |-> Respond(400, "No recipients specified."),
                   emails |-> <<>>]
             ELSE got

\* contextlocals.load_mailer, which MAILER.send resolves first: smtp is the
\* dict SITE.get('smtp', {}) gives, and a dict has no getint
load_mailer == Raise("AttributeError")

\* wsgi.send_emails: MAILER.send(emails); return "Emails sent."
send_emails_json_send(result) ==
    IF load_mailer.done THEN load_mailer ELSE Respond(200, "Emails sent.")

---------------------------------------------------------------------------
(* Version "class": src/src/hisecon.py *)

\* HiseconRequestHandler.sites_text: the file's text, or None once the
\* failure to open it is logged
sites_text ==
    IF sitesFile \in {"missing", "unreadable"} THEN Absent ELSE Some(sitesFile)

\* sites with the parsed dictionary kept from one request to the next
sites_cached ==
    IF DOMAIN loaded # {} THEN [exc |-> "", dict |-> loaded]
    ELSE IF ~Has(sites_text) THEN [exc |-> "TypeError", dict |-> <<>>]
    ELSE IF Val(sites_text) = "invalid"
         THEN [exc |-> "AttributeError", dict |-> <<>>]
         ELSE [exc |-> "", dict |-> registry]

\* HiseconRequestHandler.sites: a dictionary parsed anew on every access.
\* loads(None) raises TypeError, which no clause catches; the clause for
\* ValueError reads self.SITES_FILE, which the class does not define
sites ==
    IF ~Has(sites_text) THEN [exc |-> "TypeError", dict |-> <<>>]
    ELSE IF Val(sites_text) = "invalid"
         THEN [exc |-> "AttributeError", dict |-> <<>>]
         ELSE [exc |-> "", dict |-> registry]

\* post, lines 118-192: everything before the reCAPTCHA check, on the
\* dictionary self.sites gave
post_resolve(parsed, r) ==
    IF parsed.exc # "" THEN Raise(parsed.exc)
    ELSE IF ~Has(r.config) \/ Val(r.config) \notin DOMAIN parsed.dict
         THEN Respond(400, "No such configuration entry")
    ELSE IF ~Has(parsed.dict[Val(r.config)].secret)
         THEN Respond(500, "No secret specified for configuration")
    ELSE IF ~Has(r.response)
         THEN Respond(400, "No reCAPTCHA response provided")
    ELSE IF ~Has(r.subject) THEN Respond(400, "No subject provided")
    ELSE Continue

\* ReCaptcha_verify with the default of a missing success field turned round
ReCaptcha_verify_default_true(reply) == reply # "false"

\* ReCaptcha.verify: response_dict.get('success', False) is True
ReCaptcha_verify(reply) == reply = "true"

\* post, lines 194-196 and 233-240: the reCAPTCHA check; an unparseable
\* answer makes loads raise ValueError, which post catches; a failing
\* requests.post, and the .get of an answer that is JSON but no object,
\* raise what it does not catch
post_verify(reply) ==
    IF reply = "unreachable" THEN Raise("ConnectionError")
    ELSE IF reply = "garbage"
    THEN Respond(500, "Could not parse JSON response of reCAPTCHA")
    ELSE IF reply = "nonobject" THEN Raise("AttributeError")
    ELSE IF ReCaptcha_verify(reply) THEN Continue
    ELSE Respond(400, "reCAPTCHA check failed")

\* post, lines 199-211: the site's list, or a new one, with the request's
\* recipient and issuer appended
post_recipients(site, r) ==
       (IF Truthy(site.recipients) THEN Val(site.recipients) ELSE <<>>)
    \o (IF TruthyStr(r.recipient) THEN <<Val(r.recipient)>> ELSE <<>>)
    \o (IF TruthyStr(r.issuer) THEN <<Val(r.issuer)>> ELSE <<>>)

\* the site as the appends leave it: recipients.append changes the list the
\* site holds, unless `or []` made a new one
site_after_append(site, r) ==
    IF Truthy(site.recipients)
    THEN [site EXCEPT !.recipients = Some(post_recipients(site, r))]
    ELSE site

\* HiseconRequestHandler._get_text: (body_html, body_plain); self.data.decode()
\* raises UnicodeDecodeError, a ValueError, on bytes that are not text
Handler_get_text(r, html) ==
    IF \E i \in 1..Len(r.body) : r.body[i] = BadByte
    THEN [exc |-> "ValueError", html |-> Absent, plain |-> Absent]
    ELSE IF html
         THEN [exc |-> "", html |-> Some(unquote(r.body)), plain |-> Absent]
         ELSE [exc |-> "", html |-> Absent,
               plain |-> Some(replace_br(unquote(r.body)))]

\* HiseconRequestHandler._emails
Handler_emails(sender, recipients, subject, body_html, body_plain) ==
    [i \in 1..Len(recipients) |->
        EMail(subject, sender, recipients[i], body_plain, body_html, Absent)]

\* post, line 124: html = True if self.params.get('html') else False
post_html(r) == TruthyStr(r.html)

\* post, lines 197-232: from a valid reCAPTCHA to the call of _send_mails
post_assemble(site, r) ==
    LET html == post_html(r)
        sender == IF TruthyStr(site.from) THEN Val(site.from) ELSE DefaultFrom
        recipients == post_recipients(site, r)
        text == Handler_get_text(r, html)
    IN  IF text.exc # ""
        THEN [res |-> Respond(400, "Non-text data received"), emails |-> <<>>]
        ELSE IF ~Truthy(text.plain) /\ ~Truthy(text.html)
             THEN [res |-> Respond(400, "No message provided"),
                   emails |-> <<>>]
             ELSE [res |-> Continue,
                   emails |-> Handler_emails(sender, recipients,
                                             unquote(Val(r.subject)),
                                             text.html, text.plain)]

\* HiseconRequestHandler._send_mails
Handler_send_mails(result) ==
    CASE result = "delivered" -> Respond(200, "Emails sent")
      [] result = "auth" -> Respond(500, "Invalid credentials")
      [] result = "refused" -> Respond(500, "Recipient refused")
      [] result = "valueerror" ->
            IF DEBUG THEN Raise("ValueError") ELSE Respond(500, "Unknown error")
      [] result = "error" ->
            IF DEBUG THEN Raise("Exception") ELSE Respond(500, "Unknown error")

\* post, lines 232 and 237-240: return self._send_mails(mailer, emails)
\* stands inside the try whose except ValueError answers for the reCAPTCHA
\* parse, so a ValueError that _send_mails lets through is caught there
post_send(result) ==
    LET res == Handler_send_mails(result)
    IN  IF res.raised /\ res.msg = "ValueError"
        THEN Respond(500, "Could not parse JSON response of reCAPTCHA")
        ELSE res

---------------------------------------------------------------------------
(* The handler, step by step *)

\* what the verification service may answer: success true, false or
\* missing; the class version calls the service and parses the answer
\* itself, so it also meets a service out of reach, an answer that is not
\* JSON and an answer that is JSON but no object
Replies(v) ==
    IF v = "class"
    THEN {"true", "false", "absent", "garbage", "nonobject", "unreachable"}
    ELSE {"true", "false", "absent"}

\* what the mail transport may report: Mailer.send returns whether it
\* delivered; with fg=True the class version gets the SMTP exception
TransportResults(v) ==
    IF v = "class"
    THEN {"delivered", "auth", "refused", "valueerror", "error"}
    ELSE {"delivered", "failed"}

Init ==
    /\ ver \in Versions
    /\ registry = Sites
    /\ sitesFile \in (IF ver = "class" THEN FileStates ELSE {"valid"})
    /\ req = NoRequest
    /\ pc = "Idle"
    /\ verifyCalls = 0
    /\ verifyReply = "none"
    /\ sendCalls = 0
    /\ batch = <<>>
    /\ sendResult = "none"
    /\ status = 0
    /\ msg = ""
    /\ outcome = "None"
    /\ emails = <<>>
    /\ loaded = <<>>
    /\ appended = FALSE

\* the response leaves the handler
Finish(res) ==
    /\ pc' = "Done"
    /\ status' = res.status
    /\ msg' = res.msg
    /\ outcome' = OutcomeOf(res)

\* a POST arrives
Receive ==
    /\ pc = "Idle"
    /\ \E r \in Requests(ver) : req' = r
    /\ pc' = "Resolving"
    /\ UNCHANGED <<ver, registry, sitesFile, verifyCalls, verifyReply,
                   sendCalls, batch, sendResult, status, msg, outcome,
                   emails, loaded, appended>>

\* the handler up to the call of the CAPTCHA verifier
Resolve ==
    /\ pc = "Resolving"
    /\ LET parsed == sites
           res == CASE ver = "args" -> send_emails_resolve(registry, req)
                    [] ver = "json" -> verify_resolve(registry, req)
                    [] ver = "class" -> post_resolve(parsed, req)
       IN  /\ IF res.done THEN Finish(res)
              ELSE pc' = "Verifying" /\ UNCHANGED <<status, msg, outcome>>
           /\ loaded' = IF ver = "class" THEN parsed.dict ELSE loaded
    /\ UNCHANGED <<ver, registry, sitesFile, req, verifyCalls, verifyReply,
                   sendCalls, batch, sendResult, emails, appended>>

\* the call of the CAPTCHA verifier and what the handler makes of it
Verify ==
    /\ pc = "Verifying"
    /\ \E reply \in Replies(ver) :
          /\ verifyReply' = reply
          /\ LET res == CASE ver = "args" -> send_emails_verify(reply)
                          [] ver = "json" -> send_emails_json_verify(reply)
                          [] ver = "class" -> post_verify(reply)
             IN  IF res.done THEN Finish(res)
                 ELSE pc' = "Assembling" /\ UNCHANGED <<status, msg, outcome>>
    /\ verifyCalls' = verifyCalls + 1
    /\ UNCHANGED <<ver, registry, sitesFile, req, sendCalls, batch,
                   sendResult, emails, loaded, appended>>

\* from a passed check to the call of the mail transport
Assemble ==
    /\ pc = "Assembling"
    /\ LET got == CASE ver = "args" -> send_emails_assemble(registry, req)
                    [] ver = "json" -> send_emails_json_assemble(registry, req)
                    [] ver = "class" ->
                          post_assemble(loaded[Val(req.config)], req)
       IN  /\ emails' = got.emails
           /\ IF got.res.done THEN Finish(got.res)
              ELSE pc' = "Sending" /\ UNCHANGED <<status, msg, outcome>>
    /\ loaded' =
          IF ver = "class"
          THEN [loaded EXCEPT ![Val(req.config)] =
                                  site_after_append(@, req)]
          ELSE loaded
    /\ appended' = (appended \/ loaded' # loaded)
    /\ UNCHANGED <<ver, registry, sitesFile, req, verifyCalls, verifyReply,
                   sendCalls, batch, sendResult>>

\* the call of the mail transport and the response; the version "json"
\* has to build its mailer first and calls nothing when that raises
Send ==
    /\ pc = "Sending"
    /\ IF ver = "json" /\ load_mailer.done
       THEN /\ Finish(send_emails_json_send("none"))
            /\ UNCHANGED <<sendResult, sendCalls, batch>>
       ELSE /\ \E result \in TransportResults(ver) :
                  /\ sendResult' = result
                  /\ Finish(CASE ver = "args" -> send_emails_send(result)
                              [] ver = "json" -> send_emails_json_send(result)
                              [] ver = "class" -> post_send(result))
            /\ sendCalls' = sendCalls + 1
            /\ batch' = emails
    /\ UNCHANGED <<ver, registry, sitesFile, req, verifyCalls, verifyReply,
                   emails, loaded, appended>>

\* the request is over; the handler waits for the next one
Return ==
    /\ pc = "Done"
    /\ pc' = "Idle"
    /\ req' = NoRequest
    /\ verifyCalls' = 0
    /\ verifyReply' = "none"
    /\ sendCalls' = 0
    /\ batch' = <<>>
    /\ sendResult' = "none"
    /\ status' = 0
    /\ msg' = ""
    /\ outcome' = "None"
    /\ emails' = <<>>
    /\ UNCHANGED <<ver, registry, sitesFile, loaded, appended>>

Next == Receive \/ Resolve \/ Verify \/ Assemble \/ Send \/ Return

Spec == Init /\ [][Next]_vars

---------------------------------------------------------------------------
(* What the claims speak of *)

InFlight == pc # "Idle"

\* one of the three required parameters is absent
MissingRequired ==
    ~Has(req.config) \/ ~Has(req.response) \/ ~Has(req.subject)

\* the registry was read and holds the request's site
SiteKnown ==
    /\ sitesFile = "valid"
    /\ Has(req.config)
    /\ Val(req.config) \in DOMAIN registry

\* the registry was read and the request's config names no site of it
SiteUnknown ==
    /\ sitesFile = "valid"
    /\ Has(req.config)
    /\ Val(req.config) \notin DOMAIN registry

\* no configuration error stands in the request's way: the registry was
\* read, and the site the request names, if it is known, has its secret
Configured ==
    /\ sitesFile = "valid"
    /\ SiteKnown => Has(registry[Val(req.config)].secret)

\* the merged recipient collection of the request, as the version merges it
MergedRecipients ==
    CASE ver = "args" -> get_recipients(registry, req)
      [] ver = "json" -> get_recipients_json(registry, req)
      [] ver = "class" -> post_recipients(registry[Val(req.config)], req)

\* the plain and html bodies the request resolves to, as the version
\* resolves them; resolved is FALSE when resolving raises
ResolvedBody ==
    CASE ver = "args" ->
            [resolved |-> TRUE, plain |-> get_body(req).plain,
             html |-> get_body(req).html]
      [] ver = "json" ->
            [resolved |-> ~get_plain_text(req).res.done
                          /\ ~get_html_text(req).res.done,
             plain |-> get_plain_text(req).value,
             html |-> get_html_text(req).value]
      [] ver = "class" ->
            LET text == Handler_get_text(req, post_html(req))
            IN  [resolved |-> text.exc = "", plain |-> text.plain,
                 html |-> text.html]

BodyEmpty == ~Truthy(ResolvedBody.plain) /\ ~Truthy(ResolvedBody.html)

\* the request the spec calls valid
ValidRequest ==
    /\ SiteKnown
    /\ Has(registry[Val(req.config)].secret)
    /\ Has(req.response)
    /\ Truthy(req.subject)
    /\ MergedRecipients # <<>>
    /\ ResolvedBody.resolved
    /\ ~BodyEmpty

TransportFailed == sendResult \notin {"none", "delivered"}

---------------------------------------------------------------------------
(* The handler at work on valid requests only, and its progress *)

\* a valid POST arrives
ReceiveValid == Receive /\ ValidRequest'

NextValid ==
    ReceiveValid \/ Resolve \/ Verify \/ Assemble \/ Send \/ Return

\* the handler is straight-line code: once a request is received each step
\* follows, the two network calls returning or raising
FairSpec ==
    /\ Init
    /\ [][NextValid]_vars
    /\ WF_vars(Resolve) /\ WF_vars(Verify) /\ WF_vars(Assemble)
    /\ WF_vars(Send)

---------------------------------------------------------------------------
(* The claims *)

\* C1: a request that lacks config, response or subject ends in Rejected
\* (400), and on it neither the CAPTCHA verifier nor the mail transport is
\* invoked, in every handler version.  Stated for the requests no
\* configuration error stands in the way of.
C1_MissingParamRejectedUnverified ==
    (InFlight /\ MissingRequired /\ Configured) =>
        /\ verifyCalls = 0
        /\ sendCalls = 0
        /\ pc = "Done" => (outcome = "Rejected" /\ status = 400)

\* C2: a request whose config names no site of the registry ends in
\* Rejected with status 400, whatever its other parameters, and the CAPTCHA
\* verifier is never invoked on it: the request is answered by the first
\* step of the handler.
C2_UnknownSiteRejected ==
    (InFlight /\ SiteUnknown) =>
        /\ verifyCalls = 0
        /\ sendCalls = 0
        /\ pc \in {"Resolving", "Done"}
        /\ pc = "Done" => (outcome = "Rejected" /\ status = 400)

\* C2 happens: a request complete but for its unknown site was rejected
C2_Witness ==
    /\ pc = "Done"
    /\ SiteUnknown
    /\ Has(req.response)
    /\ Has(req.subject)
    /\ outcome = "Rejected"
    /\ status = 400
    /\ verifyCalls = 0

\* C3: when the verification service reports failure (success false or
\* absent) the request ends in Rejected with status 400 and the mail
\* transport's send is never invoked on it; a send is always preceded by a
\* successful verification of the same request.
C3_FailedCaptchaRejectedUnsent ==
    /\ (InFlight /\ verifyReply \in {"false", "absent"}) =>
           /\ pc = "Done"
           /\ outcome = "Rejected"
           /\ status = 400
           /\ sendCalls = 0
    /\ (pc = "Sending" \/ sendCalls > 0) =>
           (verifyCalls = 1 /\ verifyReply = "true")

\* C3 happens: the service left the success field out and the request was
\* rejected
C3_Witness ==
    /\ pc = "Done"
    /\ verifyCalls = 1
    /\ verifyReply = "absent"
    /\ outcome = "Rejected"
    /\ sendCalls = 0

\* C4: a request whose merged recipient collection is empty ends in
\* Rejected and the mail transport's send is never invoked on it, not even
\* with an empty batch, in every handler version.  Stated for the requests
\* that passed the CAPTCHA check, the only ones that can come to the
\* transport.
C4_NoRecipientsRejectedUnsent ==
    (InFlight /\ SiteKnown /\ verifyReply = "true"
        /\ MergedRecipients = <<>>) =>
        /\ pc # "Sending"
        /\ sendCalls = 0
        /\ pc = "Done" => outcome = "Rejected"

\* C5: a request whose plain and html bodies both resolve empty ends in
\* Rejected, so that no email with both bodies empty is handed to the mail
\* transport.  Stated for the requests that passed the CAPTCHA check.
C5_EmptyBodyRejected ==
    /\ (InFlight /\ SiteKnown /\ verifyReply = "true" /\ BodyEmpty) =>
           /\ pc # "Sending"
           /\ sendCalls = 0
           /\ pc = "Done" => outcome = "Rejected"
    /\ \A i \in 1..Len(batch) :
           Truthy(batch[i].plain) \/ Truthy(batch[i].html)

\* C6: a valid request whose CAPTCHA response the verifier accepts ends in
\* Sent (200).  Stated for the requests on which the mail transport reports
\* no failure.
C6_ValidRequestSent ==
    (pc = "Done" /\ ValidRequest /\ verifyReply = "true"
        /\ ~TransportFailed) =>
        (outcome = "Sent" /\ status = 200)

\* C7: the terminal state matches the cause; in particular a failure of
\* the mail transport yields Failed (500) in every handler version, and
\* the success message, status 200, is given only when the transport
\* delivered the batch.
C7_TransportFailureFails ==
    pc = "Done" =>
        /\ outcome = "Sent" <=> status = 200
        /\ outcome = "Sent" => sendResult = "delivered"
        /\ TransportFailed => (outcome = "Failed" /\ status = 500)

\* C8: the registry lookup tells its failures apart: a registry that was
\* read and lacks the identifier gives NotFound (400); a registry file that
\* is missing, unreadable or not valid gives a configuration failure (500),
\* never the 400 of an unknown site and never an unhandled exception.
C8_RegistryFailuresDistinguished ==
    pc = "Done" =>
        /\ SiteUnknown => (outcome = "Rejected" /\ status = 400)
        /\ sitesFile # "valid" => (outcome = "Failed" /\ status = 500)

\* the site settings the handler works on when it starts on a request
SeenSites == IF ver = "class" THEN loaded ELSE registry

\* C9: handling requests never changes the site registry: whatever requests
\* came before, the registry holds every site's settings as loaded, and
\* the settings a request's handler starts from, the default recipients
\* among them, are the loaded ones.
C9_RegistryImmutable ==
    /\ registry = Sites
    /\ pc \in {"Verifying", "Assembling"} => SeenSites = Sites

\* C9 happens: after a request that appended its recipient or issuer to a
\* site's recipients list, the handler works on the same site again
C9_Witness ==
    /\ ver = "class"
    /\ appended
    /\ pc = "Assembling"
    /\ req.config = Some("acme")
    /\ loaded["acme"].recipients = Sites["acme"].recipients

\* the format the claim gives a request
ClaimedFormat(r) ==
    IF Has(r.format) THEN Val(r.format)
    ELSE IF Has(r.html) THEN "html"
    ELSE "text"

\* the format a version that takes the html flag resolves
ResolvedFormat ==
    CASE ver = "args" -> get_format(req)
      [] ver = "class" -> IF post_html(req) THEN "html" ELSE "text"

\* C10: the format is the format parameter when present; otherwise html
\* when the html parameter is present at all, an empty value included;
\* otherwise text; in every handler version that takes the html flag.
C10_FormatResolution ==
    (InFlight /\ ver \in {"args", "class"}) =>
        ResolvedFormat = ClaimedFormat(req)

\* the raw request body holds text
Decodable == \A i \in 1..Len(req.body) : req.body[i] # BadByte

\* C11: of the raw request body, format text makes the plain body, every
\* literal '<br>' replaced by a newline, and leaves the html body empty;
\* format html or json makes the html body, the raw body unchanged
\* character for character, and leaves the plain body empty.  The format
\* is the one the handler resolved.
C11_BodyResolution ==
    (InFlight /\ ver \in {"args", "class"} /\ Decodable) =>
        /\ ResolvedFormat = "text" =>
              /\ ResolvedBody.plain = Some(replace_br(req.body))
              /\ ~Has(ResolvedBody.html)
        /\ ResolvedFormat \in {"html", "json"} =>
              /\ ResolvedBody.html = Some(req.body)
              /\ ~Has(ResolvedBody.plain)

\* the request declares plain text
DeclaredPlain ==
    CASE ver = "args" -> ResolvedFormat = "text"
      [] ver = "json" -> req.contentType = Some("text/plain")
      [] ver = "class" -> ResolvedFormat = "text"

\* the request declares HTML
DeclaredHtml ==
    CASE ver = "args" -> ResolvedFormat = "html"
      [] ver = "json" ->
            /\ Has(req.contentType)
            /\ Val(req.contentType) \in {"text/html", "application/xhtml+xml"}
      [] ver = "class" -> ResolvedFormat = "html"

\* C12: of the plain and the html body exactly one is populated, the one
\* the declared format or content type names: a plain-text declaration
\* populates the plain body only, an HTML declaration the html body only.
C12_ExactlyOneBodyAsDeclared ==
    (InFlight /\ ResolvedBody.resolved) =>
        /\ Has(ResolvedBody.plain) # Has(ResolvedBody.html)
        /\ DeclaredPlain => Has(ResolvedBody.plain)
        /\ DeclaredHtml => Has(ResolvedBody.html)

\* the merged recipient collection in the order the claim gives it; a
\* single recipient or an issuer is supplied when it names an address, as
\* an entry of the recipients list counts only when it is not empty
ClaimedRecipients ==
    LET site == registry[Val(req.config)]
    IN     (IF Truthy(site.recipients) THEN Val(site.recipients) ELSE <<>>)
        \o (IF TruthyStr(req.recipient) THEN <<Val(req.recipient)>> ELSE <<>>)
        \o (IF Truthy(req.recipients)
            THEN IF ver = "args" THEN split_recipients(Val(req.recipients))
                 ELSE Val(req.recipients)
            ELSE <<>>)
        \o (IF TruthyStr(req.issuer) THEN <<Val(req.issuer)>> ELSE <<>>)

\* b holds one email for each claimed recipient, in order, all alike but
\* for the recipient
BatchAsClaimed(b) ==
    /\ Len(b) = Len(ClaimedRecipients)
    /\ \A i \in 1..Len(b) :
          /\ b[i].recipient = ClaimedRecipients[i]
          /\ b[i].subject = b[1].subject
          /\ b[i].sender = b[1].sender
          /\ b[i].plain = b[1].plain
          /\ b[i].html = b[1].html

\* C13: the batch handed to the mail transport holds one email for each
\* entry of the merged recipient collection, in merge order and none lost:
\* the site's recipients, the single recipient, the entries of the
\* recipients list trimmed and the empty ones dropped, and the issuer last;
\* all emails of the batch carry the same subject, sender and bodies.  So
\* is the batch the handler is about to hand over, and the one handed over.
C13_OneEmailPerRecipientInOrder ==
    /\ pc = "Sending" => BatchAsClaimed(emails)
    /\ sendCalls = 1 => BatchAsClaimed(batch)

=============================================================================
